---------------------------- MODULE Spec2Model ----------------------------
(***************************************************************************)
(* Stage-routing workflow engine of the RFP response automation backend:   *)
(* the chat() turn handler, the LangGraph workflow (main_agent,            *)
(* sales_agent, technical_agent, pricing_agent with conditional edges and  *)
(* an in-process MemorySaver checkpointer), the AgentMemoryManager and the *)
(* session store behind it.                                                *)
(*                                                                         *)
(* A WorkflowState is a record over Fields plus "keys", the set of dict    *)
(* keys that are present; an absent key holds its default so that equal    *)
(* dicts are equal records.                                                *)
(***************************************************************************)
EXTENDS Naturals, Sequences, FiniteSets, TLC

(* ------------------------------ bounds --------------------------------- *)

\* Number of chat() requests started over a whole behaviour.
MaxTurns == 2

\* Number of process restarts over a whole behaviour.
MaxRestarts == 1

\* Number of times valuation routes back to intake within one run (Spec);
\* CycleSpec leaves it to the recursion limit.
MaxLoops == 1

\* Number of chat() requests in CycleSpec, whose runs loop freely.
MaxCycleTurns == 2

(* --------------------------- program constants ------------------------- *)

\* LangGraph's default recursion_limit: chat() passes none in its config.
RecursionLimit == 25

\* criteria built by sales_agent_node
MinTenderValue == 1000000
MinDaysRemaining == 7
TopN == 5

\* qualify_rfp_tool: a record is qualified when its score reaches this
QualifyScore == 60

Sessions == {"s1", "s2"}
Tasks == {"t1", "t2"}

(* ------------------------------ state.py ------------------------------- *)

\* class WorkflowStep
WorkflowStep == {"IDLE", "SCANNING", "WAITING_USER", "ANALYZING", "PRICING",
                 "COMPLETE", "ERROR"}

\* class NodeName
NodeName == {"main_agent", "sales_agent", "technical_agent", "pricing_agent",
             "wait_for_user", "END"}

\* the nodes registered by create_workflow
Stages == {"main_agent", "sales_agent", "technical_agent", "pricing_agent"}

\* langgraph.graph.END as returned by the route functions
END == "__end__"

Fields == {"messages", "current_step", "next_node", "rfps_identified",
           "selected_rfp", "technical_analysis", "pricing_analysis", "error",
           "session_id"}

\* value of an absent key (dict.get default None); messages and
\* rfps_identified are lists
Default(f) == IF f \in {"messages", "rfps_identified"} THEN <<>> ELSE "None"

\* the empty dict; also what load_chat_session gives for an unknown session
NoState == [f \in Fields \cup {"keys"} |-> IF f = "keys" THEN {} ELSE Default(f)]

HumanMessage(text) == [role |-> "user", content |-> text]
AIMessage(text) == [role |-> "assistant", content |-> text]

\* dict.get(key): the value, None when the key is absent
Get(st, f) == IF f \in st.keys THEN st[f] ELSE Default(f)

\* AgentState: messages is Annotated[List, operator.add], every other key is
\* a last-value channel. Writing update u (a partial dict) into st.
ApplyUpdate(st, u) ==
    [f \in Fields \cup {"keys"} |->
        IF f = "keys" THEN st.keys \cup u.keys
        ELSE IF f \notin u.keys THEN st[f]
        ELSE IF f = "messages" THEN st.messages \o u.messages
        ELSE u[f]]

\* a partial dict from a set of key/value pairs
Dict(pairs) ==
    [f \in Fields \cup {"keys"} |->
        IF f = "keys" THEN {p[1] : p \in pairs}
        ELSE IF \E p \in pairs : p[1] = f
             THEN (CHOOSE p \in pairs : p[1] = f)[2]
             ELSE Default(f)]

create_initial_state(session_id, user_message) ==
    Dict({ <<"messages", <<HumanMessage(user_message)>> >>,
           <<"current_step", "IDLE">>,
           <<"next_node", "main_agent">>,
           <<"rfps_identified", <<>> >>,
           <<"selected_rfp", "None">>,
           <<"technical_analysis", "None">>,
           <<"pricing_analysis", "None">>,
           <<"session_id", session_id>>,
           <<"error", "None">> })

Placeholder == "Processing your request..."

RECURSIVE LastAi(_)
LastAi(msgs) ==
    IF msgs = <<>> THEN Placeholder
    ELSE IF msgs[Len(msgs)].role = "assistant" THEN msgs[Len(msgs)].content
    ELSE LastAi(SubSeq(msgs, 1, Len(msgs) - 1))

\* the content of the newest message, whoever wrote it
last_message_content(st) ==
    IF st.messages = <<>> THEN Placeholder
    ELSE st.messages[Len(st.messages)].content

get_last_ai_message_content(st) == LastAi(st.messages)


(* ------------------------- sales_agent/tools.py ------------------------ *)

\* The tender data (data/mock_rfps.json) as scan_rfps_tool annotates it:
\* days_remaining and tender_value per rfp_id. R1 is a good tender, R2 a
\* high-value tender due in 3 days, R3 a low-value tender due in 10 days.
RfpIds == {"R1", "R2", "R3"}
MockOrder == <<"R1", "R2", "R3">>
DaysRemaining(r) == CASE r = "R1" -> 45 [] r = "R2" -> 3 [] OTHER -> 10
TenderValue(r) == CASE r = "R1" -> 6000000 [] r = "R2" -> 6000000 [] OTHER -> 500000

\* qualify_rfp_tool: the score, with preferred_locations = [] as built by
\* sales_agent_node (the location branch always adds 30)
QualifyScoreOf(r) ==
    LET d == DaysRemaining(r)
        v == TenderValue(r)
        timeScore == IF d < MinDaysRemaining THEN 0
                     ELSE IF d < 14 THEN 15
                     ELSE IF d < 30 THEN 25 ELSE 30
        valueScore == IF v < MinTenderValue THEN 10
                      ELSE IF v < MinTenderValue * 2 THEN 25
                      ELSE IF v < MinTenderValue * 5 THEN 35 ELSE 40
    IN timeScore + valueScore + 30

\* qualified only when the score is reached and the deadline leaves the
\* minimum number of days
QualifiedInTime(r) ==
    QualifyScoreOf(r) >= QualifyScore /\ DaysRemaining(r) >= MinDaysRemaining

\* qualify_rfp_tool: the final assignment of qualification['qualified']
Qualified(r) == QualifyScoreOf(r) >= QualifyScore

RECURSIVE SelectSeq2(_, _)
SelectSeq2(seq, S) ==
    IF seq = <<>> THEN <<>>
    ELSE IF seq[1] \in S THEN <<seq[1]>> \o SelectSeq2(Tail(seq), S)
    ELSE SelectSeq2(Tail(seq), S)

\* list.sort(key=priority_score, reverse=True): stable, descending
RECURSIVE InsertDesc(_, _)
InsertDesc(sorted, r) ==
    IF sorted = <<>> THEN <<r>>
    ELSE IF QualifyScoreOf(sorted[1]) >= QualifyScoreOf(r)
         THEN <<sorted[1]>> \o InsertDesc(Tail(sorted), r)
         ELSE <<r>> \o sorted

RECURSIVE SortDesc(_)
SortDesc(seq) ==
    IF seq = <<>> THEN <<>>
    ELSE InsertDesc(SortDesc(SubSeq(seq, 1, Len(seq) - 1)), seq[Len(seq)])

\* prioritize_rfps_tool(rfps, qualifications, top_n)
prioritize_rfps_tool(rfps) ==
    LET scored == SortDesc(SelectSeq2(rfps, {r \in RfpIds : Qualified(r)}))
    IN SubSeq(scored, 1, IF Len(scored) < TopN THEN Len(scored) ELSE TopN)

\* scan_rfps_tool: the records of the data file that match, in file order;
\* which ones match depends on the data and the date, so any subset may.
ScanResults == {SelectSeq2(MockOrder, S) : S \in SUBSET RfpIds}

(* ------------------------- sales_agent/node.py ------------------------- *)

\* A node outcome is a delta (partial dict) the node returns.
SalesError ==
    Dict({ <<"messages", <<AIMessage("Error: sales")>> >>,
           <<"next_node", "END">>, <<"current_step", "ERROR">> })

SalesNoneFound ==
    Dict({ <<"messages", <<AIMessage("No RFPs found matching your criteria.")>> >>,
           <<"next_node", "END">>, <<"current_step", "COMPLETE">> })

\* SalesNoneQualified that also empties the candidate list
SalesNoneQualifiedResets ==
    Dict({ <<"messages", <<AIMessage("No RFPs qualified based on criteria.")>> >>,
           <<"rfps_identified", <<>> >>,
           <<"next_node", "END">>, <<"current_step", "COMPLETE">> })

SalesNoneQualified ==
    Dict({ <<"messages", <<AIMessage("No RFPs qualified based on criteria.")>> >>,
           <<"next_node", "END">>, <<"current_step", "COMPLETE">> })

\* SalesSuccess without the routing hint
SalesSuccessNoHint(top) ==
    Dict({ <<"messages", <<AIMessage("sales llm response")>> >>,
           <<"rfps_identified", top>>,
           <<"current_step", "WAITING_USER">> })

SalesSuccess(top) ==
    Dict({ <<"messages", <<AIMessage("sales llm response")>> >>,
           <<"rfps_identified", top>>,
           <<"current_step", "WAITING_USER">>, <<"next_node", "END">> })

\* sales_agent_node, after get_shared_llm() returned: the deltas it may
\* return. scanOk/llmOk: whether the scanner and the llm call succeed.
sales_agent_node(st, scanOk, scanned, llmOk) ==
    IF ~scanOk THEN SalesError
    ELSE IF scanned = <<>> THEN SalesNoneFound
    ELSE LET top == prioritize_rfps_tool(scanned)
         IN IF top = <<>> THEN SalesNoneQualified
            ELSE IF ~llmOk THEN SalesError
            ELSE SalesSuccess(top)

(* ----------------------- technical_agent/node.py ----------------------- *)

\* TechnicalNoRfp that also records an analysis entry for the failure
TechnicalNoRfpRecords ==
    Dict({ <<"messages", <<AIMessage("No RFP selected. Please select an RFP first.")>> >>,
           <<"technical_analysis", "failed">>,
           <<"next_node", "END">>, <<"current_step", "ERROR">> })

TechnicalNoRfp ==
    Dict({ <<"messages", <<AIMessage("No RFP selected. Please select an RFP first.")>> >>,
           <<"next_node", "END">>, <<"current_step", "ERROR">> })

\* TechnicalError that leaves the routing hint as it found it
TechnicalErrorNoHint ==
    Dict({ <<"messages", <<AIMessage("Error analyzing RFP")>> >>,
           <<"current_step", "ERROR">> })

TechnicalError ==
    Dict({ <<"messages", <<AIMessage("Error analyzing RFP")>> >>,
           <<"next_node", "END">>, <<"current_step", "ERROR">> })

\* TechnicalSuccess that ends the turn after the analysis
TechnicalSuccessEnds(selected) ==
    Dict({ <<"messages", <<AIMessage("technical llm response")>> >>,
           <<"technical_analysis", selected>>,
           <<"current_step", "PRICING">>, <<"next_node", "END">> })

TechnicalSuccess(selected) ==
    Dict({ <<"messages", <<AIMessage("technical llm response")>> >>,
           <<"technical_analysis", selected>>,
           <<"current_step", "PRICING">>, <<"next_node", "pricing_agent">> })

\* technical_agent_node, after get_shared_llm() returned. toolsOk: whether
\* the extraction, catalog matching and llm call all succeed.
technical_agent_node(st, toolsOk) ==
    LET selected_rfp == Get(st, "selected_rfp")
    IN IF selected_rfp = "None" THEN TechnicalNoRfp
       ELSE IF ~toolsOk THEN TechnicalError
       ELSE TechnicalSuccess(selected_rfp)

(* ------------- main_agent/node.py, pricing_agent/node.py --------------- *)
(* Not part of the available sources; modelled from the stage contracts:   *)
(* intake replies directly or delegates to discovery or assessment (the    *)
(* user's selection of a candidate record, when there is one, is recorded  *)
(* on the way to assessment); valuation records the pricing analysis and   *)
(* routes to TERMINAL or back to intake.                                   *)

Candidates(st) == {Get(st, "rfps_identified")[i] : i \in DOMAIN Get(st, "rfps_identified")}

main_agent_node(st) ==
    { Dict({ <<"messages", <<AIMessage("intake reply")>> >>,
             <<"next_node", "END">> }),
      Dict({ <<"next_node", "sales_agent">>, <<"current_step", "SCANNING">> }),
      Dict({ <<"next_node", "technical_agent">>, <<"current_step", "ANALYZING">> }) }
    \cup
    { Dict({ <<"next_node", "technical_agent">>, <<"current_step", "ANALYZING">>,
             <<"selected_rfp", r>> }) : r \in Candidates(st) }

pricing_agent_node(st, mayLoop) ==
    { Dict({ <<"messages", <<AIMessage("pricing response")>> >>,
             <<"pricing_analysis", Get(st, "technical_analysis")>>,
             <<"current_step", "COMPLETE">>,
             <<"next_node", nn>> }) :
        nn \in IF mayLoop THEN {"END", "main_agent"} ELSE {"END"} }

(* ------------------------------ graph.py ------------------------------- *)

\* state.get("next_node", NodeName.END)
NextNodeOf(st) == IF "next_node" \in st.keys THEN st.next_node ELSE "END"

route_from_main(st) ==
    IF NextNodeOf(st) = "sales_agent" THEN "sales_agent"
    ELSE IF NextNodeOf(st) = "technical_agent" THEN "technical_agent"
    ELSE END

route_from_sales(st) == END

\* a conditional edge that follows whatever registered node the hint names
route_by_hint(st) ==
    IF NextNodeOf(st) \in Stages THEN NextNodeOf(st) ELSE END

\* an edge out of assessment that goes on to valuation whatever the hint
route_to_pricing(st) == "pricing_agent"

route_from_technical(st) ==
    IF NextNodeOf(st) = "pricing_agent" THEN "pricing_agent" ELSE END

route_from_pricing(st) ==
    IF NextNodeOf(st) = "main_agent" THEN "main_agent" ELSE END

\* the conditional edges added by create_workflow
Route(node, st) ==
    CASE node = "main_agent" -> route_from_main(st)
      [] node = "sales_agent" -> route_from_sales(st)
      [] node = "technical_agent" -> route_from_technical(st)
      [] node = "pricing_agent" -> route_from_pricing(st)

\* an entry that resumes a session waiting for the user at assessment
EntryByStep(st) ==
    IF Get(st, "current_step") = "WAITING_USER" THEN "technical_agent"
    ELSE "main_agent"

\* workflow.set_entry_point("main_agent"): where a run given input st starts
EntryPoint(st) == "main_agent"


(* ------------------------------- state --------------------------------- *)

VARIABLES
    store,          \* session store: session_id -> saved state (NoState: none)
    msg_table,      \* session store: session_id -> saved chat messages
    ckpt,           \* MemorySaver: thread_id -> latest checkpoint values
    chat_sessions,  \* core.config.chat_sessions: session_id -> state
    memory_cache,   \* AgentMemoryManager.memory_cache
    last_sync,      \* AgentMemoryManager.last_sync: has an entry or not
    llm_instance,   \* llm_config._llm_instance is set
    api_key,        \* GROQ_API_KEY is set in the environment
    pc,             \* per request task: where chat() stands
    tsession,       \* per task: message.session_id
    ttext,          \* per task: message.message
    tstate,         \* per task: the state chat() / the graph run holds
    tnode,          \* per task: the node the run executes next
    tsteps,         \* per task: supersteps executed by the run
    tresp,          \* per task: the ChatResponse returned
    tpath,          \* per task: the nodes the run has executed, in order
    tprev,          \* per task: the saved state when the request arrived
    tstart,         \* per task: the state the run started from
    tput,           \* per task: outcome of the final save_agent_state
    turns,          \* chat() requests started
    restarts,       \* process restarts
    probe           \* the call under observation, its input and its answer:
                    \* a routing (RouterSpec), a node execution (StageSpec),
                    \* a reply (ReplySpec), a session management call
                    \* (SessionSpec, ViewSpec); unused in the other ones

vars == <<store, msg_table, ckpt, chat_sessions, memory_cache, last_sync,
          llm_instance, api_key, pc, tsession, ttext, tstate, tnode, tsteps,
          tresp, tpath, tprev, tstart, tput, turns, restarts, probe>>

UserTexts == <<"u1", "u2", "u3", "u4", "u5", "u6", "u7", "u8">>

NoMemory == [has |-> FALSE, messages |-> <<>>]
NoResp == [kind |-> "none", response |-> "", current_step |-> "None"]

NoProbe == [phase |-> "off", stage |-> "main_agent", prior |-> "None",
            hint |-> "None", result |-> "None"]

\* the state of a freshly started server with an empty session store
ServerInit ==
    /\ store = [s \in Sessions |-> NoState]
    /\ msg_table = [s \in Sessions |-> <<>>]
    /\ ckpt = [s \in Sessions |-> NoState]
    /\ chat_sessions = [s \in Sessions |-> NoState]
    /\ memory_cache = [s \in Sessions |-> NoMemory]
    /\ last_sync = [s \in Sessions |-> FALSE]
    /\ llm_instance = FALSE
    /\ api_key \in BOOLEAN
    /\ pc = [t \in Tasks |-> "idle"]
    /\ tsession = [t \in Tasks |-> "s1"]
    /\ ttext = [t \in Tasks |-> ""]
    /\ tstate = [t \in Tasks |-> NoState]
    /\ tnode = [t \in Tasks |-> END]
    /\ tsteps = [t \in Tasks |-> 0]
    /\ tresp = [t \in Tasks |-> NoResp]
    /\ tpath = [t \in Tasks |-> <<>>]
    /\ tprev = [t \in Tasks |-> NoState]
    /\ tstart = [t \in Tasks |-> NoState]
    /\ tput = [t \in Tasks |-> "none"]
    /\ turns = 0
    /\ restarts = 0

Init == ServerInit /\ probe = NoProbe

(* -------------------------- memory_manager.py -------------------------- *)

\* _sync_session_state: the basic state it saves
SyncStub(s) ==
    Dict({ <<"messages", <<>> >>, <<"current_step", "IDLE">>,
           <<"session_id", s>> })

\* get_memory: a new buffer for an uncached session. The coroutine
\* _load_messages_from_db is called without await, so it never runs and the
\* buffer starts empty.
get_memory(s) ==
    IF memory_cache[s].has THEN memory_cache[s]
    ELSE [has |-> TRUE, messages |-> <<>>]

\* save_agent_state(session_id, state) with the store answering dbOk:
\* the store after it
SavedStore(s, st, dbOk) == IF dbOk THEN [store EXCEPT ![s] = st] ELSE store

\* _sync_session_state: it saves when there is no last_sync or it is older
\* than 30 seconds (elapsed)
SyncDue(s, elapsed) == ~last_sync[s] \/ elapsed

\* add_user_message / add_ai_message: buffer, message table, then sync
AddMessage(s, msg, elapsed, dbOk) ==
    /\ memory_cache' = [memory_cache EXCEPT
            ![s] = [has |-> TRUE, messages |-> Append(get_memory(s).messages, msg)]]
    /\ msg_table' = [msg_table EXCEPT ![s] = Append(@, msg)]
    /\ IF SyncDue(s, elapsed)
       THEN /\ store' = SavedStore(s, SyncStub(s), dbOk)
            /\ last_sync' = [last_sync EXCEPT ![s] = @ \/ dbOk]
       ELSE UNCHANGED <<store, last_sync>>

(* ------------------------------- chat.py ------------------------------- *)

\* a load that starts every turn from a new state
AlwaysFresh(session_id, saved, text) == create_initial_state(session_id, text)

\* chat(), lines 20-31: load the saved state or create the initial one
LoadedInput(session_id, saved, text) ==
    IF saved # NoState
    THEN [saved EXCEPT !.messages = <<HumanMessage(text)>>,
                       !.keys = @ \cup {"messages"}]
    ELSE create_initial_state(session_id, text)

ChatLoad(t, s, maxTurns) ==
    /\ pc[t] = "idle"
    /\ turns < maxTurns
    /\ turns' = turns + 1
    /\ pc' = [pc EXCEPT ![t] = "loaded"]
    /\ tsession' = [tsession EXCEPT ![t] = s]
    /\ ttext' = [ttext EXCEPT ![t] = UserTexts[turns + 1]]
    /\ tstate' = [tstate EXCEPT ![t] = LoadedInput(s, store[s], UserTexts[turns + 1])]
    /\ tprev' = [tprev EXCEPT ![t] = store[s]]
    /\ tresp' = [tresp EXCEPT ![t] = NoResp]
    /\ tpath' = [tpath EXCEPT ![t] = <<>>]
    /\ tstart' = [tstart EXCEPT ![t] = NoState]
    /\ tput' = [tput EXCEPT ![t] = "none"]
    /\ tsteps' = [tsteps EXCEPT ![t] = 0]
    /\ tnode' = [tnode EXCEPT ![t] = END]
    /\ UNCHANGED <<probe, store, msg_table, ckpt, chat_sessions, memory_cache,
                   last_sync, llm_instance, api_key, restarts>>

\* chat(), line 34: add_user_message
ChatAddUser(t) ==
    /\ pc[t] = "loaded"
    /\ \E elapsed \in BOOLEAN, dbOk \in BOOLEAN :
         AddMessage(tsession[t], HumanMessage(ttext[t]), elapsed, dbOk)
    /\ pc' = [pc EXCEPT ![t] = "added"]
    /\ UNCHANGED <<probe, ckpt, chat_sessions, llm_instance, api_key, tsession, ttext,
                   tstate, tnode, tsteps, tresp, tpath, tprev, tstart, tput,
                   turns, restarts>>

\* chat(), line 46: rfp_workflow.ainvoke(state, thread_id = session_id)
\* starts: the input is written into the thread's checkpointed channels
\* and the run begins at the entry point.
ChatInvoke(t) ==
    /\ pc[t] = "added"
    /\ LET s == tsession[t]
           merged == ApplyUpdate(ckpt[s], tstate[t])
       IN /\ tstate' = [tstate EXCEPT ![t] = merged]
          /\ tstart' = [tstart EXCEPT ![t] = merged]
          /\ ckpt' = [ckpt EXCEPT ![s] = merged]
          /\ tnode' = [tnode EXCEPT ![t] = EntryPoint(tstate[t])]
    /\ tsteps' = [tsteps EXCEPT ![t] = 0]
    /\ pc' = [pc EXCEPT ![t] = "running"]
    /\ UNCHANGED <<probe, store, msg_table, chat_sessions, memory_cache, last_sync,
                   llm_instance, api_key, tsession, ttext, tresp, tpath, tprev,
                   tput, turns, restarts>>

\* chat(), lines 89-107: the response of the except branch
ErrorResponse == [kind |-> "error", response |-> "Error", current_step |-> "ERROR"]

\* The run raises (a node raised, or GraphRecursionError): chat() returns
\* the error response; the checkpoint keeps the last completed superstep.
RunRaises(t) ==
    /\ pc' = [pc EXCEPT ![t] = "done"]
    /\ tresp' = [tresp EXCEPT ![t] = ErrorResponse]
    /\ UNCHANGED <<probe, store, msg_table, ckpt, chat_sessions, memory_cache,
                   last_sync, tstate, tnode, tsteps, tsession, ttext, tprev,
                   tstart, tput, turns, restarts, api_key>>

\* The node to run after `node` returned delta on state st: the conditional
\* edge of `node` applied to the merged state.
NextNode(node, st, delta) == Route(node, ApplyUpdate(st, delta))

\* One superstep: the node returned delta; merge it, checkpoint, route.
\* When the next node is not END and the run has used RecursionLimit
\* supersteps, LangGraph raises GraphRecursionError.
Superstep(t, delta) ==
    LET s == tsession[t]
        after == ApplyUpdate(tstate[t], delta)
        nxt == NextNode(tnode[t], tstate[t], delta)
    IN /\ tstate' = [tstate EXCEPT ![t] = after]
       /\ ckpt' = [ckpt EXCEPT ![s] = after]
       /\ tsteps' = [tsteps EXCEPT ![t] = @ + 1]
       /\ tnode' = [tnode EXCEPT ![t] = nxt]
       /\ IF nxt = END
          THEN /\ pc' = [pc EXCEPT ![t] = "finished"]
               /\ tresp' = tresp
          ELSE IF tsteps[t] + 1 >= RecursionLimit
          THEN /\ pc' = [pc EXCEPT ![t] = "done"]
               /\ tresp' = [tresp EXCEPT ![t] = ErrorResponse]
          ELSE /\ pc' = pc
               /\ tresp' = tresp
       /\ UNCHANGED <<probe, store, msg_table, chat_sessions, memory_cache, last_sync,
                      tsession, ttext, tprev, tstart, tput, turns, restarts,
                      api_key>>

\* llm_config.get_shared_llm: raises when no instance exists and the key is
\* not set; otherwise the instance exists afterwards
LlmAvailable == llm_instance \/ api_key

RunMain(t) ==
    /\ pc[t] = "running" /\ tnode[t] = "main_agent"
    /\ tpath' = [tpath EXCEPT ![t] = Append(@, "main_agent")]
    /\ \E delta \in main_agent_node(tstate[t]) : Superstep(t, delta)
    /\ UNCHANGED llm_instance

RunSales(t) ==
    /\ pc[t] = "running" /\ tnode[t] = "sales_agent"
    /\ tpath' = [tpath EXCEPT ![t] = Append(@, "sales_agent")]
    /\ IF LlmAvailable
       THEN /\ llm_instance' = TRUE
            /\ \E scanOk \in BOOLEAN, scanned \in ScanResults, llmOk \in BOOLEAN :
                 Superstep(t, sales_agent_node(tstate[t], scanOk, scanned, llmOk))
       ELSE /\ RunRaises(t)
            /\ UNCHANGED llm_instance

RunTechnical(t) ==
    /\ pc[t] = "running" /\ tnode[t] = "technical_agent"
    /\ tpath' = [tpath EXCEPT ![t] = Append(@, "technical_agent")]
    /\ IF LlmAvailable
       THEN /\ llm_instance' = TRUE
            /\ \E toolsOk \in BOOLEAN :
                 Superstep(t, technical_agent_node(tstate[t], toolsOk))
       ELSE /\ RunRaises(t)
            /\ UNCHANGED llm_instance

\* the times the run has come back to main_agent
Loops(path) == Cardinality({i \in DOMAIN path : i > 1 /\ path[i] = "main_agent"})

RunPricing(t, maxLoops) ==
    /\ pc[t] = "running" /\ tnode[t] = "pricing_agent"
    /\ tpath' = [tpath EXCEPT ![t] = Append(@, "pricing_agent")]
    /\ \E delta \in pricing_agent_node(tstate[t], Loops(tpath[t]) < maxLoops) :
         Superstep(t, delta)
    /\ UNCHANGED llm_instance

\* chat(), lines 52-62: the reply text, add_ai_message
ChatAddAi(t) ==
    /\ pc[t] = "finished"
    /\ \E elapsed \in BOOLEAN, dbOk \in BOOLEAN :
         AddMessage(tsession[t], AIMessage(get_last_ai_message_content(tstate[t])),
                    elapsed, dbOk)
    /\ pc' = [pc EXCEPT ![t] = "replied"]
    /\ UNCHANGED <<probe, ckpt, chat_sessions, llm_instance, api_key, tsession, ttext,
                   tstate, tnode, tsteps, tresp, tpath, tprev, tstart, tput,
                   turns, restarts>>

\* chat(), lines 79-88: the response of a run that returned
OkResponse(result) ==
    [kind |-> "ok",
     response |-> get_last_ai_message_content(result),
     current_step |-> IF "current_step" \in result.keys
                      THEN result.current_step ELSE "COMPLETE"]

\* chat(), lines 65-88: save_agent_state, chat_sessions, the response
ChatSave(t) ==
    /\ pc[t] = "replied"
    /\ \E dbOk \in BOOLEAN :
         /\ store' = SavedStore(tsession[t], tstate[t], dbOk)
         /\ last_sync' = [last_sync EXCEPT ![tsession[t]] = @ \/ dbOk]
         /\ tput' = [tput EXCEPT ![t] = IF dbOk THEN "saved" ELSE "failed"]
    /\ chat_sessions' = [chat_sessions EXCEPT ![tsession[t]] = tstate[t]]
    /\ tresp' = [tresp EXCEPT ![t] = OkResponse(tstate[t])]
    /\ pc' = [pc EXCEPT ![t] = "done"]
    /\ UNCHANGED <<probe, msg_table, ckpt, memory_cache, llm_instance, api_key,
                   tsession, ttext, tstate, tnode, tsteps, tpath, tprev, tstart,
                   turns, restarts>>

\* The response has been handed to the caller and the request's locals
\* are gone.
ChatReturn(t) ==
    /\ pc[t] = "done"
    /\ pc' = [pc EXCEPT ![t] = "idle"]
    /\ tsession' = [tsession EXCEPT ![t] = "s1"]
    /\ ttext' = [ttext EXCEPT ![t] = ""]
    /\ tstate' = [tstate EXCEPT ![t] = NoState]
    /\ tnode' = [tnode EXCEPT ![t] = END]
    /\ tsteps' = [tsteps EXCEPT ![t] = 0]
    /\ tresp' = [tresp EXCEPT ![t] = NoResp]
    /\ tpath' = [tpath EXCEPT ![t] = <<>>]
    /\ tprev' = [tprev EXCEPT ![t] = NoState]
    /\ tstart' = [tstart EXCEPT ![t] = NoState]
    /\ tput' = [tput EXCEPT ![t] = "none"]
    /\ UNCHANGED <<probe, store, msg_table, ckpt, chat_sessions, memory_cache,
                   last_sync, llm_instance, api_key, turns, restarts>>

\* The server process restarts: everything held in memory is lost, requests
\* in flight with it; the session store stays.
Restart ==
    /\ restarts < MaxRestarts
    /\ restarts' = restarts + 1
    /\ ckpt' = [s \in Sessions |-> NoState]
    /\ chat_sessions' = [s \in Sessions |-> NoState]
    /\ memory_cache' = [s \in Sessions |-> NoMemory]
    /\ last_sync' = [s \in Sessions |-> FALSE]
    /\ llm_instance' = FALSE
    /\ api_key' \in BOOLEAN
    /\ pc' = [t \in Tasks |-> "idle"]
    /\ tsession' = [t \in Tasks |-> "s1"]
    /\ ttext' = [t \in Tasks |-> ""]
    /\ tstate' = [t \in Tasks |-> NoState]
    /\ tnode' = [t \in Tasks |-> END]
    /\ tsteps' = [t \in Tasks |-> 0]
    /\ tresp' = [t \in Tasks |-> NoResp]
    /\ tpath' = [t \in Tasks |-> <<>>]
    /\ tprev' = [t \in Tasks |-> NoState]
    /\ tstart' = [t \in Tasks |-> NoState]
    /\ tput' = [t \in Tasks |-> "none"]
    /\ UNCHANGED <<probe, store, msg_table, turns>>

\* Requests are served one at a time, for one session, in Spec.
Serving == {"t1"}
Served == {"s1"}

Next ==
    \/ \E t \in Serving, s \in Served : ChatLoad(t, s, MaxTurns)
    \/ \E t \in Serving : ChatAddUser(t)
    \/ \E t \in Serving : ChatInvoke(t)
    \/ \E t \in Serving : RunMain(t)
    \/ \E t \in Serving : RunSales(t)
    \/ \E t \in Serving : RunTechnical(t)
    \/ \E t \in Serving : RunPricing(t, MaxLoops)
    \/ \E t \in Serving : ChatAddAi(t)
    \/ \E t \in Serving : ChatSave(t)
    \/ \E t \in Serving : ChatReturn(t)
    \/ Restart

Spec == Init /\ [][Next]_vars

\* Runs may loop until LangGraph's recursion limit stops them.
CycleNext ==
    \/ \E t \in Serving, s \in Served : ChatLoad(t, s, MaxCycleTurns)
    \/ \E t \in Serving : ChatAddUser(t)
    \/ \E t \in Serving : ChatInvoke(t)
    \/ \E t \in Serving : RunMain(t)
    \/ \E t \in Serving : RunSales(t)
    \/ \E t \in Serving : RunTechnical(t)
    \/ \E t \in Serving : RunPricing(t, RecursionLimit)
    \/ \E t \in Serving : ChatAddAi(t)
    \/ \E t \in Serving : ChatSave(t)
    \/ \E t \in Serving : ChatReturn(t)
    \/ Restart

CycleSpec == Init /\ [][CycleNext]_vars

(* ---------------------- the routers on any input ----------------------- *)

\* A next_node value a node may have written, or left by an earlier node;
\* "absent" when the key is not in the dict.
Hints == NodeName \cup {"absent"}

HintDict(h) == IF h = "absent" THEN NoState ELSE Dict({ <<"next_node", h>> })

RouterInit ==
    /\ ServerInit
    /\ probe \in [phase : {"input"}, stage : Stages, prior : Hints,
                  hint : Hints, result : {"None"}]

\* The engine merges the delta of probe.stage (writing probe.hint) into a
\* state whose next_node is probe.prior, and follows the conditional edge.
RouteProbe ==
    /\ probe.phase = "input"
    /\ probe' = [probe EXCEPT
            !.phase = "routed",
            !.result = NextNode(probe.stage, HintDict(probe.prior),
                                HintDict(probe.hint))]
    /\ UNCHANGED <<store, msg_table, ckpt, chat_sessions, memory_cache,
                   last_sync, llm_instance, api_key, pc, tsession, ttext,
                   tstate, tnode, tsteps, tresp, tpath, tprev, tstart, tput,
                   turns, restarts>>

RouterNext == RouteProbe

RouterSpec == RouterInit /\ [][RouterNext]_vars


(* ------------------------------- claims -------------------------------- *)

IsPrefix(a, b) == Len(a) <= Len(b) /\ SubSeq(b, 1, Len(a)) = a

Last(seq) == seq[Len(seq)]

\* the run of task t has ended at END (chat() goes on to reply and save)
RunEnded(t) == pc[t] \in {"finished", "replied"} \/ (pc[t] = "done" /\ tresp[t].kind = "ok")

\* the run of task t ended in assessment's precondition failure: the last
\* node executed is technical_agent and no record is selected (no node
\* ever unsets selected_rfp, so none was selected when it was entered)
PreconditionFailed(t) ==
    /\ RunEnded(t)
    /\ tpath[t] # <<>>
    /\ Last(tpath[t]) = "technical_agent"
    /\ Get(tstate[t], "selected_rfp") = "None"

\* C1: every chat() request that has returned to its caller issued the
\* final save_agent_state of its run's state (whether or not the store
\* accepted it).
C1_FinalPutIssued ==
    \A t \in Tasks : pc[t] = "done" => tput[t] # "none"

\* C2: when a turn's final save succeeded, the message log saved before the
\* turn is a prefix of the message log saved after it.
C2_LogIsAppendOnly ==
    \A t \in Tasks :
        (pc[t] = "done" /\ tput[t] = "saved")
            => IsPrefix(tprev[t].messages, store[tsession[t]].messages)

\* C3: after an engine run, current_step is ERROR if and only if the error
\* field of the resulting state is not null.
C3_ErrorIffErrorField ==
    \A t \in Tasks :
        RunEnded(t) =>
            ((Get(tstate[t], "current_step") = "ERROR")
                <=> (Get(tstate[t], "error") # "None"))

\* C4: a run in which assessment was entered without a selected record
\* ends with current_step ERROR and a non-empty error field, and valuation
\* was not executed after it.
C4_PreconditionYieldsError ==
    \A t \in Tasks :
        PreconditionFailed(t) =>
            /\ Get(tstate[t], "current_step") = "ERROR"
            /\ Get(tstate[t], "error") # "None"
            /\ tnode[t] = END

\* C5: when assessment fails its precondition, every field other than the
\* message log, current_step, error and next_node, the technical and
\* pricing analyses among them, has in the final state the value it had
\* when the run started.
C5_FailedAssessmentFrame ==
    \A t \in Tasks :
        PreconditionFailed(t) =>
            \A f \in Fields \ {"messages", "current_step", "error", "next_node"} :
                Get(tstate[t], f) = Get(tstart[t], f)

C5_Witness ==
    \E t \in Tasks :
        /\ PreconditionFailed(t)
        /\ pc[t] = "done"
        /\ Get(tstate[t], "current_step") = "ERROR"

AllowedHints(stage) ==
    CASE stage = "main_agent" -> {"sales_agent", "technical_agent", "END"}
      [] stage = "sales_agent" -> {"END"}
      [] stage = "technical_agent" -> {"pricing_agent", "END"}
      [] stage = "pricing_agent" -> {"main_agent", "END"}

\* C7: when a stage writes a next_node value outside its declared successor
\* set, routing fails with InvalidRouteError instead of ending the run
\* normally.
C7_UndeclaredHintRejected ==
    (/\ probe.phase = "routed"
     /\ probe.hint # "absent"
     /\ probe.hint \notin AllowedHints(probe.stage))
        => probe.result = "InvalidRouteError"

\* the successor stages of the design
Successors(stage) ==
    CASE stage = "main_agent" -> {"sales_agent", "technical_agent"}
      [] stage = "sales_agent" -> {}
      [] stage = "technical_agent" -> {"pricing_agent"}
      [] stage = "pricing_agent" -> {"main_agent"}

\* C8: whatever next_node value a stage writes or finds left in the state,
\* the node executed after it is one of its successors, or the run ends.
C8_NextStageIsSuccessor ==
    probe.phase = "routed" =>
        probe.result \in Successors(probe.stage) \cup {END}

C8_Witness ==
    /\ probe.phase = "routed"
    /\ probe.stage = "technical_agent"
    /\ probe.hint = "sales_agent"
    /\ probe.result = END

\* C9: a run halted at the step bound leaves a resulting state whose
\* current_step is ERROR.
C9_StepBoundYieldsErrorState ==
    \A t \in Tasks :
        (pc[t] = "done" /\ tsteps[t] >= RecursionLimit /\ tnode[t] # END)
            => Get(tstate[t], "current_step") = "ERROR"

\* C10 as claimed: for a session whose state was loaded from the store, the
\* first node a run executes is the one named by the loaded next_node.
C10_StartsAtLoadedNextNode ==
    \A t \in Tasks :
        (tpath[t] # <<>> /\ "next_node" \in tprev[t].keys)
            => tpath[t][1] = tprev[t].next_node

\* C10 as amended: every run, of a fresh session or of one whose state was
\* loaded from the store, starts at the entry node main_agent.
C10_StartsAtEntryPoint ==
    \A t \in Tasks : tpath[t] # <<>> => tpath[t][1] = "main_agent"

C10_Witness ==
    \E t \in Tasks :
        /\ tpath[t] # <<>>
        /\ Get(tprev[t], "next_node") = "END"
        /\ Get(tprev[t], "current_step") = "WAITING_USER"

\* C11: a run whose last executed node is discovery (sales_agent) or
\* assessment (technical_agent) and that was not stopped by the step bound
\* returns a state to chat(): no exception of a collaborator, obtaining the
\* llm included, crosses the node boundary.
C11_NoExceptionCrossesStage ==
    \A t \in Tasks :
        (/\ pc[t] = "done"
         /\ tpath[t] # <<>>
         /\ Last(tpath[t]) \in {"sales_agent", "technical_agent"}
         /\ tsteps[t] < RecursionLimit)
            => tresp[t].kind = "ok"

(* ------------------- concurrent requests of a session ------------------ *)

\* Number of chat() requests in ConcSpec.
MaxConcTurns == 2

\* chat() is an async handler with no lock: the server runs the requests it
\* receives as concurrent tasks that interleave at every await, whatever
\* their session_id.
ConcNext ==
    \/ \E t \in Tasks, s \in Served : ChatLoad(t, s, MaxConcTurns)
    \/ \E t \in Tasks : ChatAddUser(t)
    \/ \E t \in Tasks : ChatInvoke(t)
    \/ \E t \in Tasks : RunMain(t)
    \/ \E t \in Tasks : RunSales(t)
    \/ \E t \in Tasks : RunTechnical(t)
    \/ \E t \in Tasks : RunPricing(t, MaxLoops)
    \/ \E t \in Tasks : ChatAddAi(t)
    \/ \E t \in Tasks : ChatSave(t)
    \/ \E t \in Tasks : ChatReturn(t)

ConcSpec == Init /\ [][ConcNext]_vars

\* the request of task t has loaded its session and not yet replied
InFlight(t) == pc[t] \in {"loaded", "added", "running", "finished", "replied"}

\* C12: no two requests of one session are in flight at the same time.
C12_OneRunPerSession ==
    \A t1, t2 \in Tasks :
        (t1 # t2 /\ InFlight(t1) /\ InFlight(t2)) => tsession[t1] # tsession[t2]

(* ------------------ session management operations ---------------------- *)
(* clear_session (both DELETE routes), get_workflow_state and              *)
(* get_session_stats, called by a client between its turns. probe holds    *)
(* the last such call: what it answered and what the store held then.      *)

\* Number of session management calls over a whole behaviour.
MaxSessionOps == 2

NoAnswer == [exists |-> FALSE, current_step |-> "None", next_node |-> "None",
             rfps_identified |-> <<>>, selected_rfp |-> "None", error |-> "None"]

NoStats == [total_messages |-> 0, user_messages |-> 0, ai_messages |-> 0]

\* no request is being served
Quiet == \A t \in Tasks : pc[t] = "idle"

\* what tells two quiet moments apart when a turn was served, or the
\* process restarted, between them
Stamp == <<turns, restarts>>

NoCall == [op |-> "none", session |-> "s1", n |-> 0, stamp |-> <<>>,
           restarts |-> 0, turns |-> 0, again |-> FALSE,
           answer |-> NoAnswer, prev |-> NoAnswer, stats |-> NoStats,
           stored |-> NoState, logged |-> <<>>]

\* the record of a call of `op` for session s made now
Call(op, s) ==
    [NoCall EXCEPT !.op = op, !.session = s, !.n = probe.n + 1,
                   !.stamp = Stamp, !.restarts = restarts, !.turns = turns,
                   !.stored = store[s], !.logged = msg_table[s]]

\* get_workflow_state: the answer, read from chat_sessions alone
get_workflow_state(session_id) ==
    LET state == chat_sessions[session_id]
    IN IF state = NoState THEN NoAnswer
       ELSE [exists |-> TRUE,
             current_step |-> Get(state, "current_step"),
             next_node |-> Get(state, "next_node"),
             rfps_identified |-> Get(state, "rfps_identified"),
             selected_rfp |-> Get(state, "selected_rfp"),
             error |-> Get(state, "error")]

\* a lookup that hands the session's state over and forgets it
SessionsAfterPop(session_id) == [chat_sessions EXCEPT ![session_id] = NoState]

\* chat_sessions after get_workflow_state: chat_sessions.get leaves it alone
SessionsAfterGet(session_id) == chat_sessions

Count(msgs, role) == Cardinality({i \in DOMAIN msgs : msgs[i].role = role})

\* AgentMemoryManager.get_session_stats: counts over the session's buffer
get_session_stats(session_id) ==
    LET messages == get_memory(session_id).messages
    IN [total_messages |-> Len(messages),
        user_messages |-> Count(messages, "user"),
        ai_messages |-> Count(messages, "assistant")]

GetWorkflowState(s) ==
    /\ Quiet
    /\ probe.n < MaxSessionOps
    /\ LET again == probe.op = "get_state" /\ probe.session = s /\ probe.stamp = Stamp
       IN probe' = [Call("get_state", s) EXCEPT
                        !.answer = get_workflow_state(s),
                        !.again = again,
                        !.prev = IF again THEN probe.answer ELSE NoAnswer]
    /\ chat_sessions' = SessionsAfterGet(s)
    /\ UNCHANGED <<store, msg_table, ckpt, memory_cache, last_sync,
                   llm_instance, api_key, pc, tsession, ttext, tstate, tnode,
                   tsteps, tresp, tpath, tprev, tstart, tput, turns, restarts>>

\* get_session_stats: get_memory caches a buffer for the session
GetSessionStats(s) ==
    /\ Quiet
    /\ probe.n < MaxSessionOps
    /\ probe' = [Call("get_stats", s) EXCEPT !.stats = get_session_stats(s)]
    /\ memory_cache' = [memory_cache EXCEPT ![s] = get_memory(s)]
    /\ UNCHANGED <<store, msg_table, ckpt, chat_sessions, last_sync,
                   llm_instance, api_key, pc, tsession, ttext, tstate, tnode,
                   tsteps, tresp, tpath, tprev, tstart, tput, turns, restarts>>

\* a clear that empties the memory manager for every session
clear_all_memory(session_id) ==
    /\ memory_cache' = [s \in Sessions |-> NoMemory]
    /\ last_sync' = [s \in Sessions |-> FALSE]

\* AgentMemoryManager.clear_memory
clear_memory(session_id) ==
    /\ memory_cache' = [memory_cache EXCEPT ![session_id] = NoMemory]
    /\ last_sync' = [last_sync EXCEPT ![session_id] = FALSE]

\* DELETE /sessions/{session_id}: clear_memory, del chat_sessions[session_id]
ClearSession(s) ==
    /\ Quiet
    /\ probe.n < MaxSessionOps
    /\ probe' = Call("clear", s)
    /\ clear_memory(s)
    /\ chat_sessions' = [chat_sessions EXCEPT ![s] = NoState]
    /\ UNCHANGED <<store, msg_table, ckpt, llm_instance, api_key, pc, tsession,
                   ttext, tstate, tnode, tsteps, tresp, tpath, tprev, tstart,
                   tput, turns, restarts>>

\* DELETE /{session_id}: chat_sessions.pop(session_id, None)
ClearSessionPop(s) ==
    /\ Quiet
    /\ probe.n < MaxSessionOps
    /\ probe' = Call("clear", s)
    /\ chat_sessions' = [chat_sessions EXCEPT ![s] = NoState]
    /\ UNCHANGED <<store, msg_table, ckpt, memory_cache, last_sync,
                   llm_instance, api_key, pc, tsession, ttext, tstate, tnode,
                   tsteps, tresp, tpath, tprev, tstart, tput, turns, restarts>>

SessionInit == ServerInit /\ probe = NoCall

SessionNext ==
    \/ \E t \in Serving, s \in Served : ChatLoad(t, s, MaxTurns)
    \/ \E t \in Serving : ChatAddUser(t)
    \/ \E t \in Serving : ChatInvoke(t)
    \/ \E t \in Serving : RunMain(t)
    \/ \E t \in Serving : RunSales(t)
    \/ \E t \in Serving : RunTechnical(t)
    \/ \E t \in Serving : RunPricing(t, MaxLoops)
    \/ \E t \in Serving : ChatAddAi(t)
    \/ \E t \in Serving : ChatSave(t)
    \/ \E t \in Serving : ChatReturn(t)
    \/ Restart
    \/ \E s \in Served : GetWorkflowState(s)
    \/ \E s \in Served : GetSessionStats(s)
    \/ \E s \in Served : ClearSession(s)
    \/ \E s \in Served : ClearSessionPop(s)

SessionSpec == SessionInit /\ [][SessionNext]_vars

\* get_workflow_state on any state a run may have left in chat_sessions
ViewStates ==
    {NoState} \cup
    { ApplyUpdate(create_initial_state("s1", "u1"),
                  Dict({ <<"current_step", c>>, <<"rfps_identified", r>>,
                         <<"selected_rfp", x>>, <<"next_node", "END">> })) :
        c \in WorkflowStep, r \in ScanResults, x \in RfpIds \cup {"None"} }

ViewInit ==
    /\ store = [s \in Sessions |-> NoState]
    /\ msg_table = [s \in Sessions |-> <<>>]
    /\ ckpt = [s \in Sessions |-> NoState]
    /\ chat_sessions \in [Sessions -> ViewStates]
    /\ chat_sessions["s2"] = NoState
    /\ memory_cache = [s \in Sessions |-> NoMemory]
    /\ last_sync = [s \in Sessions |-> FALSE]
    /\ llm_instance = FALSE
    /\ api_key = TRUE
    /\ pc = [t \in Tasks |-> "idle"]
    /\ tsession = [t \in Tasks |-> "s1"]
    /\ ttext = [t \in Tasks |-> ""]
    /\ tstate = [t \in Tasks |-> NoState]
    /\ tnode = [t \in Tasks |-> END]
    /\ tsteps = [t \in Tasks |-> 0]
    /\ tresp = [t \in Tasks |-> NoResp]
    /\ tpath = [t \in Tasks |-> <<>>]
    /\ tprev = [t \in Tasks |-> NoState]
    /\ tstart = [t \in Tasks |-> NoState]
    /\ tput = [t \in Tasks |-> "none"]
    /\ turns = 0
    /\ restarts = 0
    /\ probe = NoCall

ViewNext == \E s \in Served : GetWorkflowState(s)

ViewSpec == ViewInit /\ [][ViewNext]_vars

\* C13: once a session has been cleared, its state is in neither the store,
\* the checkpointer nor a cache, and the next turn of the session starts
\* from a freshly constructed state.
C13_ClearedSessionStartsFresh ==
    LET s == probe.session
    IN probe.op = "clear" =>
        /\ probe.stamp = Stamp =>
            /\ store[s] = NoState
            /\ ckpt[s] = NoState
            /\ chat_sessions[s] = NoState
            /\ memory_cache[s].messages = <<>>
        /\ \A t \in Tasks :
            (/\ pc[t] = "loaded"
             /\ tsession[t] = s
             /\ turns = probe.turns + 1
             /\ restarts = probe.restarts)
                => tstate[t] = create_initial_state(s, ttext[t])

\* C14: after a process restart, get_workflow_state reports a session whose
\* state is in the store as existing, with the stored current_step and
\* candidate list, and get_session_stats reports the counts of the stored
\* messages.
C14_StateSurvivesCacheLoss ==
    /\ (probe.op = "get_state" /\ probe.restarts > 0 /\ probe.stored # NoState)
        => /\ probe.answer.exists
           /\ probe.answer.current_step = Get(probe.stored, "current_step")
           /\ probe.answer.rfps_identified = Get(probe.stored, "rfps_identified")
    /\ (probe.op = "get_stats" /\ probe.restarts > 0)
        => /\ probe.stats.total_messages = Len(probe.logged)
           /\ probe.stats.user_messages = Count(probe.logged, "user")
           /\ probe.stats.ai_messages = Count(probe.logged, "assistant")

\* C17: get_workflow_state changes neither chat_sessions, the caches nor the
\* store, and called again for the same session with nothing in between it
\* gives the answer it gave before.
C17_GetStateIdempotent ==
    [][(probe'.op = "get_state" /\ probe'.n # probe.n) =>
        /\ UNCHANGED <<store, msg_table, ckpt, chat_sessions, memory_cache,
                       last_sync>>
        /\ probe'.again => probe'.answer = probe'.prev]_vars

C17_Witness ==
    /\ probe.op = "get_state"
    /\ probe.again
    /\ probe.answer.exists
    /\ probe.answer.rfps_identified # <<>>

(* ---------------- discovery and assessment on any input ---------------- *)
(* One execution of sales_agent or technical_agent as the engine runs it:  *)
(* the node is called on the state intake left, its delta is merged and    *)
(* its conditional edge followed. probe holds the input (what the          *)
(* collaborators will answer included) and the outcome.                    *)

\* the state on which discovery is entered in the first turn of a session
SalesInput ==
    ApplyUpdate(create_initial_state("s1", "u1"),
                Dict({ <<"next_node", "sales_agent">>,
                       <<"current_step", "SCANNING">> }))

\* the state on which discovery is entered in a later turn of a session
\* whose candidates are rfps
SalesInputWith(rfps) ==
    ApplyUpdate(SalesInput, Dict({ <<"rfps_identified", rfps>> }))

\* the state on which assessment is entered: candidates rfps, selection sel
TechnicalInput(rfps, sel) ==
    ApplyUpdate(create_initial_state("s1", "u1"),
                Dict({ <<"rfps_identified", rfps>>, <<"selected_rfp", sel>>,
                       <<"next_node", "technical_agent">>,
                       <<"current_step", "ANALYZING">> }))

StageInit ==
    /\ ServerInit
    /\ probe \in
        { [phase |-> "input", stage |-> "sales_agent",
           input |-> SalesInputWith(rfps),
           scanOk |-> a, scanned |-> sc, collabOk |-> b, raised |-> FALSE,
           after |-> NoState, next |-> "None"] :
            rfps \in ScanResults, a \in BOOLEAN, sc \in ScanResults,
            b \in BOOLEAN }
        \cup
        { [phase |-> "input", stage |-> "technical_agent",
           input |-> TechnicalInput(rfps, sel),
           scanOk |-> TRUE, scanned |-> <<>>, collabOk |-> b, raised |-> FALSE,
           after |-> NoState, next |-> "None"] :
            rfps \in ScanResults, sel \in RfpIds \cup {"None"}, b \in BOOLEAN }

\* the delta the probed node returns once get_shared_llm() has answered
StageDelta ==
    IF probe.stage = "sales_agent"
    THEN sales_agent_node(probe.input, probe.scanOk, probe.scanned, probe.collabOk)
    ELSE technical_agent_node(probe.input, probe.collabOk)

StageProbe ==
    /\ probe.phase = "input"
    /\ IF LlmAvailable
       THEN /\ llm_instance' = TRUE
            /\ probe' = [probe EXCEPT
                    !.phase = "done",
                    !.after = ApplyUpdate(probe.input, StageDelta),
                    !.next = NextNode(probe.stage, probe.input, StageDelta)]
       ELSE /\ llm_instance' = llm_instance
            /\ probe' = [probe EXCEPT !.phase = "done", !.raised = TRUE,
                                      !.after = probe.input, !.next = "raised"]
    /\ UNCHANGED <<store, msg_table, ckpt, chat_sessions, memory_cache,
                   last_sync, api_key, pc, tsession, ttext, tstate, tnode,
                   tsteps, tresp, tpath, tprev, tstart, tput, turns, restarts>>

StageNext == StageProbe

StageSpec == StageInit /\ [][StageNext]_vars

\* discovery was run in the first turn of a session and the scanner
\* returned at least one record
DiscoveryFound ==
    /\ probe.phase = "done"
    /\ probe.stage = "sales_agent"
    /\ probe.input = SalesInput
    /\ probe.scanOk
    /\ probe.scanned # <<>>

\* discovery ended the turn waiting for the user's selection
AwaitsSelection ==
    /\ ~probe.raised
    /\ Get(probe.after, "current_step") = "WAITING_USER"
    /\ Get(probe.after, "rfps_identified") # <<>>
    /\ probe.next = END

C16_AssessmentLeadsToValuation ==
    (/\ probe.phase = "done"
     /\ probe.stage = "technical_agent"
     /\ Get(probe.input, "selected_rfp") # "None"
     /\ probe.collabOk
     /\ ~probe.raised)
        => /\ Get(probe.after, "technical_analysis") = Get(probe.input, "selected_rfp")
           /\ Get(probe.after, "current_step") = "PRICING"
           /\ probe.next = "pricing_agent"

C16_Witness ==
    /\ probe.phase = "done"
    /\ probe.stage = "technical_agent"
    /\ Get(probe.input, "selected_rfp") = "R2"
    /\ Get(probe.after, "technical_analysis") = "R2"
    /\ probe.next = "pricing_agent"

\* C18: a request whose final save_agent_state failed does not answer with
\* the ordinary response of a saved turn (the response carries no mark of
\* the failed write, so an ordinary response reports it as saved).
C18_FailedWriteIsFlagged ==
    \A t \in Tasks :
        (pc[t] = "done" /\ tput[t] = "failed") => tresp[t].kind # "ok"

(* ----------------------- the reply on any log -------------------------- *)

\* Longest message log tried.
MaxLogLen == 3

\* messages a log may hold: user and assistant entries, two texts each
LogMessages == {HumanMessage("u1"), HumanMessage("u2"),
                AIMessage("a1"), AIMessage("a2")}

Logs == UNION { [1..n -> LogMessages] : n \in 0..MaxLogLen }

ReplyInit ==
    /\ ServerInit
    /\ probe \in [phase : {"input"}, log : Logs, reply : {"None"}]

\* chat(), lines 52 and 79-80: the reply for a run that returned a state
\* whose messages are probe.log
ReplyProbe ==
    /\ probe.phase = "input"
    /\ probe' = [probe EXCEPT
            !.phase = "done",
            !.reply = OkResponse(Dict({ <<"messages", probe.log>> })).response]
    /\ UNCHANGED <<store, msg_table, ckpt, chat_sessions, memory_cache,
                   last_sync, llm_instance, api_key, pc, tsession, ttext,
                   tstate, tnode, tsteps, tresp, tpath, tprev, tstart, tput,
                   turns, restarts>>

ReplyNext == ReplyProbe

ReplySpec == ReplyInit /\ [][ReplyNext]_vars

\* positions of the assistant entries of a log
AssistantAt(log) == {i \in DOMAIN log : log[i].role = "assistant"}

IsFreshState(st, s, text) ==
    /\ st.keys = Fields
    /\ st.messages = <<HumanMessage(text)>>
    /\ st.current_step = "IDLE"
    /\ st.next_node = "main_agent"
    /\ st.rfps_identified = <<>>
    /\ st.selected_rfp = "None"
    /\ st.technical_analysis = "None"
    /\ st.pricing_analysis = "None"
    /\ st.error = "None"
    /\ st.session_id = s

\* C20: the state chat() starts a turn with is a freshly constructed one
\* exactly when the store held no state for the session, and a fresh state
\* has only the user's message in its log, current_step IDLE, next_node
\* main_agent, no candidates, selection, analyses or error, and the
\* session's id.
C20_FreshExactlyWhenAbsent ==
    \A t \in Tasks :
        pc[t] = "loaded" =>
            ((tprev[t] = NoState) <=> IsFreshState(tstate[t], tsession[t], ttext[t]))

C20_Witness ==
    \E t \in Tasks :
        /\ pc[t] = "loaded"
        /\ turns = 2
        /\ tprev[t] = NoState
        /\ msg_table[tsession[t]] # <<>>
        /\ IsFreshState(tstate[t], tsession[t], ttext[t])

\* C21: when no request is being served, a session's entry in
\* chat_sessions, if there is one, equals the state the store holds for
\* the session.
C21_CachedEqualsStored ==
    Quiet => \A s \in Sessions :
                chat_sessions[s] # NoState => chat_sessions[s] = store[s]

(* --------------------- requests of several sessions -------------------- *)

\* Number of chat() requests in IsoSpec.
MaxIsoTurns == 2

\* the session each request task serves in IsoSpec
IsoSession(t) == IF t = "t1" THEN "s1" ELSE "s2"

\* Concurrent requests, one task per session, and session management calls
\* for any session between them.
IsoNext ==
    \/ \E t \in Tasks : ChatLoad(t, IsoSession(t), MaxIsoTurns)
    \/ \E t \in Tasks : ChatAddUser(t)
    \/ \E t \in Tasks : ChatInvoke(t)
    \/ \E t \in Tasks : RunMain(t)
    \/ \E t \in Tasks : RunSales(t)
    \/ \E t \in Tasks : RunTechnical(t)
    \/ \E t \in Tasks : RunPricing(t, MaxLoops)
    \/ \E t \in Tasks : ChatAddAi(t)
    \/ \E t \in Tasks : ChatSave(t)
    \/ \E t \in Tasks : ChatReturn(t)
    \/ \E s \in Sessions : GetWorkflowState(s)
    \/ \E s \in Sessions : GetSessionStats(s)
    \/ \E s \in Sessions : ClearSession(s)
    \/ \E s \in Sessions : ClearSessionPop(s)

IsoSpec == SessionInit /\ [][IsoNext]_vars

\* the step is one of an operation for session a: a request task serving a
\* moves, or a session management call for a is made
ActsFor(a) ==
    \/ \E t \in Tasks :
        /\ (pc'[t] # pc[t] \/ tsteps'[t] # tsteps[t])
        /\ tsession'[t] = a
    \/ (probe' # probe /\ probe'.session = a)

\* the step changes what is kept for session b
Touches(b) ==
    \/ store'[b] # store[b]
    \/ msg_table'[b] # msg_table[b]
    \/ chat_sessions'[b] # chat_sessions[b]
    \/ memory_cache'[b] # memory_cache[b]
    \/ ckpt'[b] # ckpt[b]

\* C22: a step of a turn, clear, get_state or get_stats for one session
\* changes the stored state, the message table, the cached state, the
\* message buffer and the checkpoint of no other session.
C22_SessionsIsolated ==
    [][\A b \in Sessions : Touches(b) => ActsFor(b)]_vars

C22_Witness ==
    /\ pc["t1"] = "replied" /\ pc["t2"] = "running"
    /\ tsession["t1"] # tsession["t2"]
    /\ store[tsession["t2"]] # NoState
    /\ memory_cache[tsession["t2"]].messages # <<>>

\* the workflow fields of a stored session record
RecordFields == {"current_step", "rfps_identified", "selected_rfp",
                 "technical_analysis", "pricing_analysis"}

\* C23: from the moment a request has loaded a session's saved run state
\* until its final save, recording the user and the assistant message
\* leaves current_step, the candidates, the selection and the analyses of
\* the stored record as they were.
C23_MessagesLeaveRecordAlone ==
    \A t \in Tasks :
        (/\ pc[t] \in {"added", "running", "finished", "replied"}
         /\ "next_node" \in tprev[t].keys)
            => \A f \in RecordFields :
                    Get(store[tsession[t]], f) = Get(tprev[t], f)


\* C24: whichever way discovery or assessment returns (success, nothing
\* found, no selection, caught exception), the delta it returns carries
\* next_node, the value names a registered node or is "END", it replaces
\* the hint the node was entered with, and the node's conditional edge
\* goes where that value alone sends it.
C24_EveryReturnSetsHint ==
    (probe.phase = "done" /\ ~probe.raised)
        => /\ "next_node" \in StageDelta.keys
           /\ StageDelta.next_node \in Stages \cup {"END"}
           /\ Get(probe.after, "next_node") = StageDelta.next_node
           /\ probe.next = Route(probe.stage, StageDelta)

C24_Witness ==
    /\ probe.phase = "done"
    /\ probe.stage = "technical_agent"
    /\ Get(probe.input, "selected_rfp") # "None"
    /\ Get(probe.input, "next_node") = "technical_agent"
    /\ ~probe.collabOk
    /\ ~probe.raised
    /\ Get(probe.after, "next_node") = "END"
    /\ probe.next = END


\* C25: when the run of a turn raises and the request answers with the
\* error response, the stored record of the session is the one the turn
\* loaded (the state saved by an earlier run).
C25_FailedTurnKeepsRecord ==
    \A t \in Tasks :
        (/\ pc[t] = "done"
         /\ tresp[t] = ErrorResponse
         /\ "next_node" \in tprev[t].keys)
            => store[tsession[t]] = tprev[t]


(* ------------------- a clear while a request is served ------------------ *)
(* chat() awaits at add_user_message, ainvoke, add_ai_message and          *)
(* save_agent_state; both clear_session handlers run without awaiting, so  *)
(* the event loop may run one between any two steps of a request.          *)

\* a request for session s has been accepted and has not answered yet
Serves(s) == \E t \in Tasks : pc[t] # "idle" /\ tsession[t] = s

\* DELETE /sessions/{session_id} while a request for the session is served
ClearSessionDuring(s) ==
    /\ Serves(s)
    /\ probe.n < MaxSessionOps
    /\ probe' = Call("clear", s)
    /\ clear_memory(s)
    /\ chat_sessions' = [chat_sessions EXCEPT ![s] = NoState]
    /\ UNCHANGED <<store, msg_table, ckpt, llm_instance, api_key, pc, tsession,
                   ttext, tstate, tnode, tsteps, tresp, tpath, tprev, tstart,
                   tput, turns, restarts>>

\* DELETE /{session_id} while a request for the session is served
ClearSessionPopDuring(s) ==
    /\ Serves(s)
    /\ probe.n < MaxSessionOps
    /\ probe' = Call("clear", s)
    /\ chat_sessions' = [chat_sessions EXCEPT ![s] = NoState]
    /\ UNCHANGED <<store, msg_table, ckpt, memory_cache, last_sync,
                   llm_instance, api_key, pc, tsession, ttext, tstate, tnode,
                   tsteps, tresp, tpath, tprev, tstart, tput, turns, restarts>>

RaceNext ==
    \/ \E t \in Serving, s \in Served : ChatLoad(t, s, MaxTurns)
    \/ \E t \in Serving : ChatAddUser(t)
    \/ \E t \in Serving : ChatInvoke(t)
    \/ \E t \in Serving : RunMain(t)
    \/ \E t \in Serving : RunSales(t)
    \/ \E t \in Serving : RunTechnical(t)
    \/ \E t \in Serving : RunPricing(t, MaxLoops)
    \/ \E t \in Serving : ChatAddAi(t)
    \/ \E t \in Serving : ChatSave(t)
    \/ \E t \in Serving : ChatReturn(t)
    \/ \E s \in Served : ClearSessionDuring(s)
    \/ \E s \in Served : ClearSessionPopDuring(s)

RaceSpec == SessionInit /\ [][RaceNext]_vars

\* C26: when a session was cleared while a request for it was being
\* served, the request has since answered and no turn was submitted after
\* the clear, neither chat_sessions nor the store holds a state for it.
C26_ClearDuringRunSticks ==
    (/\ probe.op = "clear"
     /\ Quiet
     /\ turns = probe.turns)
        => /\ chat_sessions[probe.session] = NoState
           /\ store[probe.session] = NoState


(* ------------------ the message table across a request ------------------ *)
(* add_user_message and add_ai_message return what save_chat_message       *)
(* returned; chat() does not look at it (lines 34 and 54).                 *)

\* add_user_message / add_ai_message when save_chat_message returns False:
\* the buffer has the message, the message table does not; then the sync
LostMessage(s, msg, elapsed, dbOk) ==
    /\ memory_cache' = [memory_cache EXCEPT
            ![s] = [has |-> TRUE, messages |-> Append(get_memory(s).messages, msg)]]
    /\ msg_table' = msg_table
    /\ IF SyncDue(s, elapsed)
       THEN /\ store' = SavedStore(s, SyncStub(s), dbOk)
            /\ last_sync' = [last_sync EXCEPT ![s] = @ \/ dbOk]
       ELSE UNCHANGED <<store, last_sync>>

\* chat(), line 34, the message write refused
ChatAddUserLost(t) ==
    /\ pc[t] = "loaded"
    /\ \E elapsed \in BOOLEAN, dbOk \in BOOLEAN :
         LostMessage(tsession[t], HumanMessage(ttext[t]), elapsed, dbOk)
    /\ pc' = [pc EXCEPT ![t] = "added"]
    /\ UNCHANGED <<probe, ckpt, chat_sessions, llm_instance, api_key, tsession, ttext,
                   tstate, tnode, tsteps, tresp, tpath, tprev, tstart, tput,
                   turns, restarts>>

\* chat(), line 54, the message write refused
ChatAddAiLost(t) ==
    /\ pc[t] = "finished"
    /\ \E elapsed \in BOOLEAN, dbOk \in BOOLEAN :
         LostMessage(tsession[t], AIMessage(get_last_ai_message_content(tstate[t])),
                     elapsed, dbOk)
    /\ pc' = [pc EXCEPT ![t] = "replied"]
    /\ UNCHANGED <<probe, ckpt, chat_sessions, llm_instance, api_key, tsession, ttext,
                   tstate, tnode, tsteps, tresp, tpath, tprev, tstart, tput,
                   turns, restarts>>

TableNext ==
    \/ \E t \in Serving, s \in Served : ChatLoad(t, s, MaxTurns)
    \/ \E t \in Serving : ChatAddUser(t)
    \/ \E t \in Serving : ChatAddUserLost(t)
    \/ \E t \in Serving : ChatInvoke(t)
    \/ \E t \in Serving : RunMain(t)
    \/ \E t \in Serving : RunSales(t)
    \/ \E t \in Serving : RunTechnical(t)
    \/ \E t \in Serving : RunPricing(t, MaxLoops)
    \/ \E t \in Serving : ChatAddAi(t)
    \/ \E t \in Serving : ChatAddAiLost(t)
    \/ \E t \in Serving : ChatSave(t)
    \/ \E t \in Serving : ChatReturn(t)
    \/ Restart

TableSpec == Init /\ [][TableNext]_vars

\* what a step of the request of task t appends to the message table
Appended(t) ==
    IF pc[t] = "loaded" /\ pc'[t] = "added"
    THEN <<HumanMessage(ttext[t])>>
    ELSE IF pc[t] = "finished" /\ pc'[t] = "replied"
    THEN <<AIMessage(get_last_ai_message_content(tstate[t]))>>
    ELSE <<>>

\* C27: in the message table of a session the step of a request that
\* records the user message, taken before the run starts, appends exactly
\* that one user entry, the step that records the reply, taken after the
\* run returned and before the final state write, appends exactly that one
\* assistant entry, and no other step (a raising run, the final write, a
\* restart) adds, removes or changes an entry.
C27_TableGrowsByTurn ==
    [][\A t \in Serving :
          msg_table'[tsession'[t]] = msg_table[tsession'[t]] \o Appended(t)]_vars


\* C28: in every run, each execution of valuation comes directly after an
\* execution of assessment in the same run, and whenever valuation is
\* about to run the state has a selected record, the technical analysis
\* of that record and current_step PRICING (assessment succeeded); it is
\* never entered from intake or discovery, nor after a failed assessment.
C28_ValuationFollowsAssessment ==
    \A t \in Tasks :
        /\ \A i \in DOMAIN tpath[t] :
              tpath[t][i] = "pricing_agent"
                  => i > 1 /\ tpath[t][i - 1] = "technical_agent"
        /\ (pc[t] = "running" /\ tnode[t] = "pricing_agent")
              => /\ tpath[t] # <<>>
                 /\ tpath[t][Len(tpath[t])] = "technical_agent"
                 /\ Get(tstate[t], "selected_rfp") # "None"
                 /\ Get(tstate[t], "technical_analysis") = Get(tstate[t], "selected_rfp")
                 /\ Get(tstate[t], "current_step") = "PRICING"

C28_Witness ==
    /\ pc["t1"] = "finished"
    /\ tpath["t1"] = <<"main_agent", "technical_agent", "pricing_agent">>
    /\ Get(tstate["t1"], "pricing_analysis") # "None"
    /\ turns = 2


\* C29: when discovery leaves current_step WAITING_USER the candidate list
\* is not empty; when the scanner returns no record, or none of the
\* returned records is kept by the prioritization, discovery ends the run
\* with current_step COMPLETE and the candidate list it was entered with.
C29_WaitingHasCandidates ==
    (probe.phase = "done" /\ probe.stage = "sales_agent" /\ ~probe.raised)
        => /\ Get(probe.after, "current_step") = "WAITING_USER"
                => /\ Get(probe.after, "rfps_identified") # <<>>
                   /\ probe.next = END
           /\ (probe.scanOk /\ prioritize_rfps_tool(probe.scanned) = <<>>)
                => /\ Get(probe.after, "current_step") = "COMPLETE"
                   /\ Get(probe.after, "rfps_identified")
                        = Get(probe.input, "rfps_identified")
                   /\ probe.next = END

C29_Witness ==
    /\ probe.phase = "done"
    /\ probe.stage = "sales_agent"
    /\ ~probe.raised
    /\ probe.scanOk
    /\ probe.scanned = <<"R3">>
    /\ Get(probe.input, "rfps_identified") = <<"R1", "R2">>
    /\ Get(probe.after, "rfps_identified") = <<"R1", "R2">>
    /\ Get(probe.after, "current_step") = "COMPLETE"


\* C30: a record whose days_remaining is below min_days_remaining is never
\* qualified by the scorer, whatever its tender value and location, and
\* so is never among the candidates discovery records.
C30_NoLateRecordQualifies ==
    (probe.phase = "done" /\ probe.stage = "sales_agent" /\ ~probe.raised
     /\ probe.scanOk)
        => /\ \A i \in DOMAIN probe.scanned :
                DaysRemaining(probe.scanned[i]) < MinDaysRemaining
                    => ~Qualified(probe.scanned[i])
           /\ "rfps_identified" \in StageDelta.keys
                => \A i \in DOMAIN StageDelta.rfps_identified :
                      DaysRemaining(StageDelta.rfps_identified[i])
                          >= MinDaysRemaining

=============================================================================
